---- MODULE Spec2Model ----
(***************************************************************************)
(* A model of the chat backend: the completion client                      *)
(* (app/services/openrouter_service.py), the session/message repository    *)
(* (app/services/user_service.py) and the request handlers                 *)
(* (app/routes/auth.py, app/routes/chat.py).                               *)
(*                                                                         *)
(* Texts are TLA+ strings; Len, \o and SubSeq act on them as Python's      *)
(* len, + and slicing do.  JSON values are tagged records.  A Python call  *)
(* that may raise yields a result record: Ok(v) or Raise(exception).       *)
(***************************************************************************)
EXTENDS Integers, Sequences, FiniteSets, TLC

\* ------------------------------------------------------------------------
\* Python values
\* ------------------------------------------------------------------------

Ok(v) == [ok |-> TRUE, v |-> v, exc |-> "none"]

Raise(e) == [ok |-> FALSE, v |-> "", exc |-> e]

\* The exception classes the client can meet, each with its chain of base
\* classes up to Exception (httpx and the standard library).
Bases(exc) ==
  CASE exc = "TimeoutException" ->
         {"TimeoutException", "TransportError", "RequestError", "HTTPError", "Exception"}
    [] exc = "ConnectError" ->
         {"ConnectError", "TransportError", "RequestError", "HTTPError", "Exception"}
    [] exc = "HTTPStatusError" -> {"HTTPStatusError", "HTTPError", "Exception"}
    [] exc = "JSONDecodeError" -> {"JSONDecodeError", "ValueError", "Exception"}
    [] OTHER -> {exc, "Exception"}

IsInstance(exc, cls) == cls \in Bases(exc)

\* str.strip(): whitespace removed from both ends.
Whitespace == {" ", "\n", "\t"}

RECURSIVE LStrip(_, _)
LStrip(s, chars) ==
  IF Len(s) > 0 /\ SubSeq(s, 1, 1) \in chars
    THEN LStrip(SubSeq(s, 2, Len(s)), chars)
    ELSE s

RECURSIVE RStrip(_, _)
RStrip(s, chars) ==
  IF Len(s) > 0 /\ SubSeq(s, Len(s), Len(s)) \in chars
    THEN RStrip(SubSeq(s, 1, Len(s) - 1), chars)
    ELSE s

StripChars(s, chars) == RStrip(LStrip(s, chars), chars)

Strip(s) == StripChars(s, Whitespace)

\* s.startswith(prefix)
StartsWith(s, prefix) ==
  Len(s) >= Len(prefix) /\ SubSeq(s, 1, Len(prefix)) = prefix

\* sub in s, for two strings
Contains(s, sub) ==
  \E i \in 1..(Len(s) - Len(sub) + 1) : SubSeq(s, i, i + Len(sub) - 1) = sub

\* ------------------------------------------------------------------------
\* JSON values, as json.loads builds them
\* ------------------------------------------------------------------------

JNull == [t |-> "null"]

JNum(n) == [t |-> "num", n |-> n]

JStr(s) == [t |-> "str", s |-> s]

JList(items) == [t |-> "list", items |-> items]

JObj(f) == [t |-> "obj", f |-> f]

\* key in x
PyIn(key, x) ==
  CASE x.t = "obj" -> Ok(key \in DOMAIN x.f)
    [] x.t = "list" -> Ok(\E i \in 1..Len(x.items) : x.items[i] = JStr(key))
    [] x.t = "str" -> Ok(Contains(x.s, key))
    [] OTHER -> Raise("TypeError")

\* x[key], key a string
PyGetKey(x, key) ==
  CASE x.t = "obj" -> IF key \in DOMAIN x.f THEN Ok(x.f[key]) ELSE Raise("KeyError")
    [] OTHER -> Raise("TypeError")

\* len(x)
PyLen(x) ==
  CASE x.t = "obj" -> Ok(Cardinality(DOMAIN x.f))
    [] x.t = "list" -> Ok(Len(x.items))
    [] x.t = "str" -> Ok(Len(x.s))
    [] OTHER -> Raise("TypeError")

\* x[0]
PyFirst(x) ==
  CASE x.t = "list" -> IF Len(x.items) > 0 THEN Ok(x.items[1]) ELSE Raise("IndexError")
    [] x.t = "str" -> IF Len(x.s) > 0 THEN Ok(JStr(SubSeq(x.s, 1, 1))) ELSE Raise("IndexError")
    [] x.t = "obj" -> Raise("KeyError")
    [] OTHER -> Raise("TypeError")

\* x.get(key, {})
PyGetOrEmpty(x, key) ==
  CASE x.t = "obj" -> Ok(IF key \in DOMAIN x.f THEN x.f[key] ELSE JObj(<<>>))
    [] OTHER -> Raise("AttributeError")

\* ------------------------------------------------------------------------
\* The provider's payload texts and json.loads on them
\* ------------------------------------------------------------------------

\* One completion choice of the non-streaming path, and one of the stream.
MessageChoice(content) == JObj([message |-> JObj([content |-> content])])

DeltaChoice(content) == JObj([delta |-> JObj([content |-> content])])

Choices(items) == JObj([choices |-> JList(items)])

\* json.loads, on the payload texts the provider sends in this model: each
\* text with the value it denotes.  Every other text is not JSON.
JsonTable ==
  { [text |-> "{\"choices\":[{\"message\":{\"content\":\"Hello\"}}]}",
     value |-> Choices(<<MessageChoice(JStr("Hello"))>>)],
    [text |-> "{\"choices\":[{\"message\":{\"content\":\" Hi there\\n\"}}]}",
     value |-> Choices(<<MessageChoice(JStr(" Hi there\n"))>>)],
    [text |-> "{\"choices\":[{\"message\":{\"content\":\"\\\"Greeting\\\"\"}}]}",
     value |-> Choices(<<MessageChoice(JStr("\"Greeting\""))>>)],
    [text |-> "{\"choices\":[{\"message\":{\"content\":\" \"}}]}",
     value |-> Choices(<<MessageChoice(JStr(" "))>>)],
    [text |-> "{\"choices\":[{\"message\":{\"content\":\"\\\"\\\"Hi\\\"\\\"\"}}]}",
     value |-> Choices(<<MessageChoice(JStr("\"\"Hi\"\""))>>)],
    [text |-> "{\"choices\":[{\"message\":{\"content\":\"\\\"A long talk about the history of the Roman Empire\\\"\"}}]}",
     value |-> Choices(<<MessageChoice(JStr("\"A long talk about the history of the Roman Empire\""))>>)],
    [text |-> "{\"choices\":[{\"message\":{\"content\":null}}]}",
     value |-> Choices(<<MessageChoice(JNull)>>)],
    [text |-> "{\"choices\":[{\"message\":{}}]}",
     value |-> Choices(<<JObj([message |-> JObj(<<>>)])>>)],
    [text |-> "{\"choices\":[{}]}",
     value |-> Choices(<<JObj(<<>>)>>)],
    [text |-> "{\"choices\":[]}",
     value |-> Choices(<<>>)],
    [text |-> "{\"choices\":null}",
     value |-> JObj([choices |-> JNull])],
    [text |-> "{\"error\":\"overloaded\"}",
     value |-> JObj([error |-> JStr("overloaded")])],
    [text |-> "{}", value |-> JObj(<<>>)],
    [text |-> "[]", value |-> JList(<<>>)],
    [text |-> "null", value |-> JNull],
    [text |-> "5", value |-> JNum(5)],
    [text |-> "\"no choices\"", value |-> JStr("no choices")],
    [text |-> "{\"choices\":[{\"delta\":{\"content\":\"Hel\"}}]}",
     value |-> Choices(<<DeltaChoice(JStr("Hel"))>>)],
    [text |-> "{\"choices\":[{\"delta\":{\"content\":\"lo\"}}]}",
     value |-> Choices(<<DeltaChoice(JStr("lo"))>>)],
    [text |-> "{\"choices\":[{\"delta\":{\"content\":\" \"}}]}",
     value |-> Choices(<<DeltaChoice(JStr(" "))>>)],
    [text |-> "{\"choices\":[{\"delta\":{\"content\":null}}]}",
     value |-> Choices(<<DeltaChoice(JNull)>>)],
    [text |-> "{\"choices\":[{\"delta\":{\"role\":\"assistant\"}}]}",
     value |-> Choices(<<JObj([delta |-> JObj([role |-> JStr("assistant")])])>>)],
    [text |-> "{\"choices\":[{\"delta\":null}]}",
     value |-> Choices(<<JObj([delta |-> JNull])>>)],
    [text |-> "{\"choices\":[{\"delta\":{\"content\":\"Hel\"}},{\"delta\":{\"content\":\"XX\"}}]}",
     value |-> Choices(<<DeltaChoice(JStr("Hel")), DeltaChoice(JStr("XX"))>>)] }

JsonLoads(text) ==
  IF \E p \in JsonTable : p.text = text
    THEN Ok((CHOOSE p \in JsonTable : p.text = text).value)
    ELSE Raise("JSONDecodeError")

\* ------------------------------------------------------------------------
\* OpenRouterService
\* ------------------------------------------------------------------------

NotConfiguredText ==
  "I apologize, but I'm not properly configured to respond right now. Please contact the administrator."

TimeoutText == "I apologize, but I'm taking too long to respond. Please try again."

ConnectText == "I'm having trouble connecting right now. Please try again in a moment."

GenericErrorText == "I encountered an unexpected error. Please try again."

FormatText == "I received an unexpected response format. Please try again."

NoContentText == "I couldn't generate a response. Please try again."

DefaultTitle == "New Chat"

\* `r` if it raised, else what `f` makes of its value: one statement after
\* another, the first exception ending the sequence.
Then(r, f(_)) == IF r.ok THEN f(r.v) ELSE r

\* content.strip() on a JSON value: only a string has the method.
PyStrip(x) == IF x.t = "str" THEN Ok(Strip(x.s)) ELSE Raise("AttributeError")

\* data["choices"][0]["message"]["content"].strip()
FirstMessageContent(data) ==
  Then(PyGetKey(data, "choices"), LAMBDA choices :
  Then(PyFirst(choices), LAMBDA first :
  Then(PyGetKey(first, "message"), LAMBDA message :
  Then(PyGetKey(message, "content"), LAMBDA content :
  PyStrip(content)))))

\* `"choices" in data and len(data["choices"]) > 0`: Ok(TRUE), Ok(FALSE) or
\* the exception one of its three operations raises.
HasChoices(data) ==
  Then(PyIn("choices", data), LAMBDA has :
  IF ~has THEN Ok(FALSE) ELSE
  Then(PyGetKey(data, "choices"), LAMBDA choices :
  Then(PyLen(choices), LAMBDA n : Ok(n > 0))))

\* response.raise_for_status()
IsSuccess(status) == status \in 200..299

\* The body of a response, once parsed.
CompleteResponseText(data) ==
  Then(HasChoices(data), LAMBDA has :
  IF has THEN FirstMessageContent(data) ELSE Ok(FormatText))

\* The provider call of the non-streaming path ends as `o`: o.exc is the
\* exception client.post raised ("none": a response came), o.status and
\* o.body are the response.
_get_complete_response(o) ==
  IF o.exc # "none" THEN Raise(o.exc) ELSE
  IF ~IsSuccess(o.status) THEN Raise("HTTPStatusError") ELSE
  Then(JsonLoads(o.body), CompleteResponseText)

\* full_response += delta["content"]
AddContent(full, content) ==
  IF content.t = "str" THEN Ok(full \o content.s) ELSE Raise("TypeError")

\* The body of the loop's try block, for a parsed payload: the text
\* accumulated after it.
StreamEvent(data, full) ==
  Then(HasChoices(data), LAMBDA has :
  IF ~has THEN Ok(full) ELSE
  Then(PyGetKey(data, "choices"), LAMBDA choices :
  Then(PyFirst(choices), LAMBDA first :
  Then(PyGetOrEmpty(first, "delta"), LAMBDA delta :
  Then(PyIn("content", delta), LAMBDA hasContent :
  IF ~hasContent THEN Ok(full) ELSE
  Then(PyGetKey(delta, "content"), LAMBDA content :
  AddContent(full, content)))))))

\* `except json.JSONDecodeError: continue`
SkipUnparsed(data, full, body(_, _)) ==
  IF data.ok THEN body(data.v, full)
  ELSE IF data.exc = "JSONDecodeError" THEN Ok(full) ELSE data

\* The loop body without the break at the sentinel: "[DONE]" is one more
\* payload that does not parse.
StreamLine_no_sentinel(line, full) ==
  IF ~StartsWith(line, "data: ") THEN Ok([stop |-> FALSE, full |-> full])
  ELSE Then(SkipUnparsed(JsonLoads(SubSeq(line, 7, Len(line))), full, StreamEvent),
            LAMBDA text : Ok([stop |-> FALSE, full |-> text]))

\* One line of the event stream, with the text accumulated so far:
\* [stop |-> the loop breaks, full |-> the text accumulated after the line],
\* or the exception the line raises.
StreamLine(line, full) ==
  IF ~StartsWith(line, "data: ") THEN Ok([stop |-> FALSE, full |-> full])
  ELSE IF Strip(SubSeq(line, 7, Len(line))) = "[DONE]"
    THEN Ok([stop |-> TRUE, full |-> full])
    ELSE Then(SkipUnparsed(JsonLoads(SubSeq(line, 7, Len(line))), full, StreamEvent),
              LAMBDA text : Ok([stop |-> FALSE, full |-> text]))

\* `async for line in response.aiter_lines()` from line i on: the text
\* accumulated when the loop ends, or the exception that ends it.  `end_exc`
\* is what the connection raises after the last line ("none": it closes).
RECURSIVE StreamLoop(_, _, _, _)
StreamLoop(lines, end_exc, i, full) ==
  IF i > Len(lines)
    THEN IF end_exc = "none" THEN Ok(full) ELSE Raise(end_exc)
    ELSE Then(StreamLine(lines[i], full), LAMBDA step :
              IF step.stop THEN Ok(step.full)
              ELSE StreamLoop(lines, end_exc, i + 1, step.full))

\* `full_response.strip() if full_response else "I couldn't ..."`
StreamText(full_response) ==
  Ok(IF full_response # "" THEN Strip(full_response) ELSE NoContentText)

\* The provider call of the streaming path ends as `o`: o.exc is the
\* exception client.stream raised ("none": a response came), o.status the
\* response's status, o.lines its lines and o.end_exc what follows them.
_stream_response(o) ==
  IF o.exc # "none" THEN Raise(o.exc) ELSE
  IF ~IsSuccess(o.status) THEN Raise("HTTPStatusError") ELSE
  Then(StreamLoop(o.lines, o.end_exc, 1, ""), StreamText)

\* The except clauses of generate_response without the final
\* `except Exception`.
HandleProviderError_transport_only(exc) ==
  IF IsInstance(exc, "TimeoutException") THEN Ok(TimeoutText)
  ELSE IF IsInstance(exc, "RequestError") THEN Ok(ConnectText)
  ELSE Raise(exc)

\* The except clauses of generate_response, in their order.
HandleProviderError(exc) ==
  IF IsInstance(exc, "TimeoutException") THEN Ok(TimeoutText)
  ELSE IF IsInstance(exc, "RequestError") THEN Ok(ConnectText)
  ELSE IF IsInstance(exc, "Exception") THEN Ok(GenericErrorText)
  ELSE Raise(exc)

\* `r`, or what the except clauses make of its exception.
Except(r, handler(_)) == IF r.ok THEN r ELSE handler(r.exc)

\* generate_response that raises when no API key is configured.
generate_response_unconfigured_raises(key, stream, o) ==
  IF key = "" THEN Raise("ValueError")
  ELSE Except(IF stream THEN _stream_response(o) ELSE _get_complete_response(o),
              HandleProviderError)

generate_response(key, stream, o) ==
  IF key = "" THEN Ok(NotConfiguredText)
  ELSE Except(IF stream THEN _stream_response(o) ELSE _get_complete_response(o),
              HandleProviderError)

\* title[:47] + "..." when the title is longer than 50
TruncateTitle(title) ==
  IF Len(title) > 50 THEN SubSeq(title, 1, 47) \o "..." ELSE title

\* title.strip('"').strip("'"), after the truncation
CleanTitle(title) ==
  Ok(StripChars(StripChars(TruncateTitle(title), {"\""}), {"'"}))

\* `except Exception: return "New Chat"`
HandleTitleError(exc) ==
  IF IsInstance(exc, "Exception") THEN Ok(DefaultTitle) ELSE Raise(exc)

generate_chat_title(key, o) ==
  Except(Then(generate_response(key, FALSE, o), CleanTitle), HandleTitleError)

TitlePrompt ==
  "Generate a concise, descriptive title (max 5 words) for a chat conversation based on the user's first message. Only return the title, nothing else."

\* The messages generate_chat_title sends.
title_messages(first_message) ==
  <<[role |-> "system", content |-> TitlePrompt],
    [role |-> "user", content |-> first_message]>>

SystemPrompt ==
  "You are a helpful AI assistant. Provide informative, accurate, and engaging responses. Be concise but thorough in your answers."

\* format_messages_for_api without the system message at the head.
format_messages_for_api_no_system(chat_messages) ==
  [i \in 1..Len(chat_messages) |->
     [role |-> IF chat_messages[i].sender_type = "user" THEN "user" ELSE "assistant",
      content |-> chat_messages[i].content]]

format_messages_for_api(chat_messages) ==
  <<[role |-> "system", content |-> SystemPrompt]>> \o
  [i \in 1..Len(chat_messages) |->
     [role |-> IF chat_messages[i].sender_type = "user" THEN "user" ELSE "assistant",
      content |-> chat_messages[i].content]]

\* ------------------------------------------------------------------------
\* Bounds and input sets
\* ------------------------------------------------------------------------

MaxUsers == 2

MaxSessions == 1

MaxRequests == 1

MaxLines == 3

\* How far the clock of a run with a clock goes.
MaxTime == 1

\* How many sessions the users of the listing specification create.
MaxListed == 2

\* How many requests on one session are in flight at once.
MaxInFlight == 2

Emails == {"a@x.com", "b@x.com"}

Passwords == {"pw"}

Contents == {"Hi"}

Titles == {"New Chat"}

ApiKeys == {"", "sk-or-v1"}

\* A bearer token: the subject it carries and whether verification accepts
\* it (signature valid and not expired).
Tokens ==
  [sub : Emails, valid : {TRUE}] \cup {[sub |-> "a@x.com", valid |-> FALSE]}

\* ------------------------------------------------------------------------
\* State
\* ------------------------------------------------------------------------

VARIABLES
  api_key,          \* settings.openrouter_api_key
  users,            \* the users table: a set of rows
  sessions,         \* the chat_sessions table: a set of rows
  messages,         \* the chat_messages table: its rows in insertion order
  next_id,          \* the next generated id of each table
  now,              \* the store's clock
  requests,         \* the send_message / send_message_stream requests begun
  resp,             \* the response the last step sent, if any
  call,             \* the provider call the last step made, if any
  result,           \* what that call returned to the handler
  failure,          \* the store failure the last step met, if any
  limits            \* how many users, sessions and requests the run may hold, and
                    \* how far its clock may go

store == <<users, sessions, messages, next_id>>

vars ==
  <<api_key, users, sessions, messages, next_id, now,
    requests, resp, call, result, failure, limits>>

NoResponse == [endpoint |-> "none"]

NoCall == [purpose |-> "none"]

NoResult == [ok |-> TRUE, v |-> "", exc |-> "none"]

\* ------------------------------------------------------------------------
\* UserService and ChatService: the repository, over the tables
\* ------------------------------------------------------------------------

\* query(...).first(): the matching row with the least id, as a set of at
\* most one row.
First(rows) == {r \in rows : \A q \in rows : r.id <= q.id}

TheRow(optional) == CHOOSE r \in optional : TRUE

\* get_user_by_email that finds nobody.
get_user_by_email_none(us, email) == {}

get_user_by_email(us, email) == First({u \in us : u.email = email})

\* get_password_hash, and verify_password on its result.
get_password_hash(password) == "hash:" \o password

verify_password(plain_password, hashed_password) ==
  hashed_password = get_password_hash(plain_password)

create_user(us, id, email, password) ==
  us \cup {[id |-> id, email |-> email, hashed_password |-> get_password_hash(password),
            is_active |-> TRUE]}

\* authenticate_user answers the user's row, or {} for None.
\* authenticate_user that accepts any password:
authenticate_user_any_password(us, email, password) ==
  get_user_by_email(us, email)

authenticate_user(us, email, password) ==
  LET user == get_user_by_email(us, email) IN
  IF user = {} THEN {}
  ELSE IF ~verify_password(password, TheRow(user).hashed_password) THEN {}
  ELSE user

create_chat_session(ss, id, user_id, title, t) ==
  ss \cup {[id |-> id, user_id |-> user_id, title |-> title,
            created_at |-> t, updated_at |-> t]}

get_session_by_id(ss, session_id) == First({x \in ss : x.id = session_id})

\* The rows of `ss` with session `session_id` changed by `change`.
UpdateSession(ss, session_id, change(_)) ==
  {IF x.id = session_id THEN change(x) ELSE x : x \in ss}

update_session_title(ss, session_id, title) ==
  LET retitle(x) == [x EXCEPT !.title = title] IN
  UpdateSession(ss, session_id, retitle)

\* add_message_to_session with the store failing at `fault`: "none", "insert"
\* (the commit of the new row raises: nothing is stored) or "touch" (the row
\* is stored, and the commit of the session's updated_at raises).
add_message_to_session(ss, ms, id, session_id, content, sender_type, t, fault) ==
  LET message == [id |-> id, session_id |-> session_id, content |-> content,
                  sender_type |-> sender_type, created_at |-> t]
      touch(x) == [x EXCEPT !.updated_at = t]
  IN IF fault = "insert"
       THEN [raised |-> TRUE, sessions |-> ss, messages |-> ms, message |-> message]
       ELSE [raised |-> fault = "touch" /\ get_session_by_id(ss, session_id) # {},
             sessions |-> IF fault = "touch" THEN ss
                          ELSE UpdateSession(ss, session_id, touch),
             messages |-> Append(ms, message),
             message |-> message]

\* The orders in which ORDER BY `key` may return `rows` (a sequence in
\* insertion order): every arrangement that is sorted by the key; rows with
\* equal keys come in any order.  `asc` is TRUE for ascending.
Orderings(rows, key(_), asc) ==
  LET n == Len(rows)
      perms == {p \in [1..n -> 1..n] : \A i, j \in 1..n : i # j => p[i] # p[j]}
      sorted(p) == \A i \in 1..(n - 1) :
                     IF asc THEN key(rows[p[i]]) <= key(rows[p[i + 1]])
                            ELSE key(rows[p[i]]) >= key(rows[p[i + 1]])
  IN {[i \in 1..n |-> rows[p[i]]] : p \in {q \in perms : sorted(q)}}

SessionRows(ms, session_id) ==
  LET in_session(m) == m.session_id = session_id IN SelectSeq(ms, in_session)

get_session_messages(ms, session_id) ==
  LET created_at(m) == m.created_at IN
  Orderings(SessionRows(ms, session_id), created_at, TRUE)

\* A set of rows as a sequence, by id.
RECURSIVE ById(_)
ById(rows) ==
  IF rows = {} THEN <<>>
  ELSE LET r == CHOOSE x \in rows : \A y \in rows : x.id <= y.id
       IN <<r>> \o ById(rows \ {r})

\* get_user_chat_sessions without the filter on the owner.
get_user_chat_sessions_unfiltered(ss, user_id) ==
  LET updated_at(x) == x.updated_at IN
  Orderings(ById(ss), updated_at, FALSE)

get_user_chat_sessions(ss, user_id) ==
  LET updated_at(x) == x.updated_at IN
  Orderings(ById({x \in ss : x.user_id = user_id}), updated_at, FALSE)

\* db.delete(session); db.commit(): the session's messages go with it.
delete_session(ss, ms, session_id) ==
  LET kept(m) == m.session_id # session_id IN
  [sessions |-> {x \in ss : x.id # session_id}, messages |-> SelectSeq(ms, kept)]

\* ------------------------------------------------------------------------
\* Authentication
\* ------------------------------------------------------------------------

HTTPException(status, detail) == [ok |-> FALSE, status |-> status, detail |-> detail]

\* verify_token: the subject, or "" for None.
verify_token(token) == IF token.valid THEN token.sub ELSE ""

\* get_current_user_dependency that takes the token's subject without
\* looking at the outcome of the verification.
get_current_user_dependency_unverified(us, token) ==
  LET user == get_user_by_email(us, token.sub) IN
  IF user = {} THEN HTTPException(404, "User not found") ELSE
  [ok |-> TRUE, user |-> TheRow(user)]

get_current_user_dependency(us, token) ==
  LET email == verify_token(token) IN
  IF email = "" THEN HTTPException(401, "Invalid token") ELSE
  LET user == get_user_by_email(us, email) IN
  IF user = {} THEN HTTPException(404, "User not found") ELSE
  [ok |-> TRUE, user |-> TheRow(user)]

\* `not session or session.user_id != current_user.id`
\* NotOwned without the comparison of the owner: only a missing session is
\* refused.
NotOwned_existence_only(session, current_user) == session = {}

NotOwned(session, current_user) ==
  session = {} \/ TheRow(session).user_id # current_user.id

\* ------------------------------------------------------------------------
\* The provider's answers
\* ------------------------------------------------------------------------

NoOutcome == [exc |-> "none", status |-> 0, body |-> "", lines |-> <<>>, end_exc |-> "none"]

Failed(exc) == [NoOutcome EXCEPT !.exc = exc]

Answered(status, body) == [NoOutcome EXCEPT !.status = status, !.body = body]

Streamed(lines, end_exc) ==
  [NoOutcome EXCEPT !.status = 200, !.lines = lines, !.end_exc = end_exc]

\* What client.post / client.stream can raise: a timeout, another transport
\* error, and any other exception (say a TypeError inside the client).
CallExceptions == {"TimeoutException", "ConnectError", "TypeError"}

Event(payload) == "data: " \o payload

\* The answers the provider gives the handlers of the server.
PostOutcomes ==
  {Failed(e) : e \in CallExceptions} \cup
  { Answered(200, "{\"choices\":[{\"message\":{\"content\":\"Hello\"}}]}"),
    Answered(200, "{\"choices\":[]}"),
    Answered(500, "{\"error\":\"overloaded\"}") }

StreamOutcomes ==
  {Failed(e) : e \in CallExceptions} \cup
  { Streamed(<<Event("{\"choices\":[{\"delta\":{\"content\":\"Hel\"}}]}"),
               Event("{\"choices\":[{\"delta\":{\"content\":\"lo\"}}]}"),
               Event("[DONE]")>>, "none"),
    Streamed(<<Event("[DONE]")>>, "none"),
    [NoOutcome EXCEPT !.status = 500] }

\* The response bodies and the stream lines of the client's specification.
PostBodies ==
  { "{\"choices\":[{\"message\":{\"content\":\"Hello\"}}]}",
    "{\"choices\":[{\"message\":{\"content\":\" Hi there\\n\"}}]}",
    "{\"choices\":[{\"message\":{\"content\":\"\\\"Greeting\\\"\"}}]}",
    "{\"choices\":[{\"message\":{\"content\":\" \"}}]}",
    "{\"choices\":[{\"message\":{\"content\":\"\\\"\\\"Hi\\\"\\\"\"}}]}",
    "{\"choices\":[{\"message\":{\"content\":\"\\\"A long talk about the history of the Roman Empire\\\"\"}}]}",
    "{\"choices\":[{\"message\":{\"content\":null}}]}",
    "{\"choices\":[{\"message\":{}}]}",
    "{\"choices\":[{}]}",
    "{\"choices\":[]}",
    "{\"choices\":null}",
    "{\"error\":\"overloaded\"}",
    "{}", "[]", "null", "5", "\"no choices\"",
    "<html>Bad Gateway</html>" }

StreamLines ==
  { Event("{\"choices\":[{\"delta\":{\"content\":\"Hel\"}}]}"),
    Event("{\"choices\":[{\"delta\":{\"content\":\"lo\"}}]}"),
    Event("{\"choices\":[{\"delta\":{\"content\":\" \"}}]}"),
    Event("{\"choices\":[{\"delta\":{\"role\":\"assistant\"}}]}"),
    Event("{\"choices\":[{\"delta\":{\"content\":\"Hel\"}},{\"delta\":{\"content\":\"XX\"}}]}"),
    Event("{\"choices\":[{\"delta\":{\"content\":null}}]}"),
    Event("{\"choices\":[]}"),
    Event("{\"choices\":"),
    Event("5"),
    Event("[DONE]"),
    ": keep-alive" }

SeqsUpTo(S, n) == UNION {[1..k -> S] : k \in 0..n}

AllPostOutcomes ==
  {Failed(e) : e \in CallExceptions} \cup
  {Answered(status, body) : status \in {200, 429, 500}, body \in PostBodies}

AllStreamOutcomes ==
  {Failed(e) : e \in CallExceptions} \cup {[NoOutcome EXCEPT !.status = 500]} \cup
  {Streamed(lines, end_exc) : lines \in SeqsUpTo(StreamLines, MaxLines),
                              end_exc \in {"none", "TimeoutException"}}

\* With no API key configured no call is made.
Answers(outcomes) == IF api_key = "" THEN {NoOutcome} ELSE outcomes

\* ------------------------------------------------------------------------
\* Request handlers
\* ------------------------------------------------------------------------

Response(endpoint, token, session_id, status, detail, body) ==
  [endpoint |-> endpoint, token |-> token, session_id |-> session_id,
   status |-> status, detail |-> detail, body |-> body]

\* What the step shows: the response it sends and the store failure it met;
\* it calls no provider.
Sends(response, store_fault) ==
  /\ resp' = response
  /\ failure' = store_fault
  /\ call' = NoCall
  /\ result' = NoResult

\* A step that sends `response` and touches nothing else.
Respond(response, store_fault) ==
  /\ Sends(response, store_fault)
  /\ UNCHANGED <<api_key, limits, store, now, requests>>

AuthFailure(endpoint, token, session_id, auth) ==
  Respond(Response(endpoint, token, session_id, auth.status, auth.detail, <<>>), "none")

NotFound(endpoint, token, session_id) ==
  Respond(Response(endpoint, token, session_id, 404, "Chat session not found", <<>>), "none")

RegisterResponse(email, status, detail) ==
  [endpoint |-> "register", email |-> email, status |-> status, detail |-> detail]

\* POST /auth/register.  The commit of the new row may raise.
register(email, password) ==
  IF get_user_by_email(users, email) # {}
    THEN Respond(RegisterResponse(email, 400, "Email already registered"), "none")
    ELSE \E commit_raises \in BOOLEAN :
      IF commit_raises
        THEN Respond(RegisterResponse(email, 500, "Internal server error"), "commit")
        ELSE /\ next_id.user <= limits.users
             /\ users' = create_user(users, next_id.user, email, password)
             /\ next_id' = [next_id EXCEPT !.user = @ + 1]
             /\ Sends(RegisterResponse(email, 200, "User registered successfully"), "none")
             /\ UNCHANGED <<api_key, limits, sessions, messages, now, requests>>

\* register in a deployment with several server processes on one store: the
\* existence check of one process and its insert are two steps, and another
\* process may run between them.  The request waits in `requests`.
Registration(email, password, pc) ==
  [endpoint |-> "register", email |-> email, password |-> password, pc |-> pc]

\* register up to the call of create_user
register_check(email, password) ==
  IF get_user_by_email(users, email) # {}
    THEN Respond(RegisterResponse(email, 400, "Email already registered"), "none")
    ELSE /\ Len(requests) < limits.requests
         /\ requests' = Append(requests, Registration(email, password, "create"))
         /\ Sends(NoResponse, "none")
         /\ UNCHANGED <<api_key, limits, store, now>>

\* users.email is unique: the commit of a second row with `email` raises
\* IntegrityError.
IntegrityError(us, email) == \E u \in us : u.email = email

\* register from create_user on.  Whatever the commit raises, the handler's
\* `except Exception` turns into a 500.
register_create(r) ==
  LET email == requests[r].email IN
  /\ requests[r].pc = "create"
  /\ requests' = [requests EXCEPT ![r].pc = "done"]
  /\ \E commit_raises \in (IF IntegrityError(users, email) THEN {TRUE} ELSE BOOLEAN) :
       IF commit_raises
         THEN /\ Sends(RegisterResponse(email, 500, "Internal server error"), "commit")
              /\ UNCHANGED <<api_key, limits, store, now>>
         ELSE /\ next_id.user <= limits.users
              /\ users' = create_user(users, next_id.user, email, requests[r].password)
              /\ next_id' = [next_id EXCEPT !.user = @ + 1]
              /\ Sends(RegisterResponse(email, 200, "User registered successfully"), "none")
              /\ UNCHANGED <<api_key, limits, sessions, messages, now>>

\* What login answers; the body of a success is the user and the token.
LoginResponse(status, detail, body) ==
  [endpoint |-> "login", status |-> status, detail |-> detail, body |-> body]

\* POST /auth/login
login(email, password) ==
  LET user == authenticate_user(users, email, password) IN
  Respond(
    IF user = {} THEN LoginResponse(401, "Incorrect email or password", <<>>)
    ELSE IF ~TheRow(user).is_active THEN LoginResponse(400, "User account is inactive", <<>>)
    ELSE LoginResponse(200, "Login successful",
                       <<TheRow(user), [sub |-> TheRow(user).email, valid |-> TRUE]>>),
    "none")

\* GET /auth/me
get_current_user(token) ==
  LET email == verify_token(token)
      user == get_user_by_email(users, email)
  IN Respond(
       IF email = "" THEN Response("me", token, 0, 401, "Invalid token", <<>>)
       ELSE IF user = {} THEN Response("me", token, 0, 404, "User not found", <<>>)
       ELSE Response("me", token, 0, 200, "", <<TheRow(user)>>),
       "none")

\* GET /chat/sessions
get_chat_sessions(token) ==
  LET auth == get_current_user_dependency(users, token) IN
  IF ~auth.ok THEN AuthFailure("get_chat_sessions", token, 0, auth)
  ELSE \E listed \in get_user_chat_sessions(sessions, auth.user.id) :
         Respond(Response("get_chat_sessions", token, 0, 200, "", listed), "none")

\* POST /chat/sessions.  The commit of the new row may raise.
create_chat_session_handler(token, title) ==
  LET auth == get_current_user_dependency(users, token) IN
  IF ~auth.ok THEN AuthFailure("create_chat_session", token, 0, auth)
  ELSE \E commit_raises \in BOOLEAN :
    IF commit_raises
      THEN Respond(Response("create_chat_session", token, 0, 500,
                            "Failed to create chat session", <<>>), "commit")
      ELSE /\ next_id.session <= limits.sessions
           /\ sessions' = create_chat_session(sessions, next_id.session, auth.user.id, title, now)
           /\ next_id' = [next_id EXCEPT !.session = @ + 1]
           /\ Sends(Response("create_chat_session", token, next_id.session, 200, "", <<>>),
                    "none")
           /\ UNCHANGED <<api_key, limits, users, messages, now, requests>>

\* GET /chat/sessions/{id}/messages
get_session_messages_handler(token, session_id) ==
  LET auth == get_current_user_dependency(users, token) IN
  IF ~auth.ok THEN AuthFailure("get_session_messages", token, session_id, auth)
  ELSE IF NotOwned(get_session_by_id(sessions, session_id), auth.user)
    THEN NotFound("get_session_messages", token, session_id)
    ELSE \E listed \in get_session_messages(messages, session_id) :
           Respond(Response("get_session_messages", token, session_id, 200, "", listed),
                   "none")

\* DELETE /chat/sessions/{id}.  The commit of the delete may raise.
delete_chat_session(token, session_id) ==
  LET auth == get_current_user_dependency(users, token) IN
  IF ~auth.ok THEN AuthFailure("delete_chat_session", token, session_id, auth)
  ELSE IF NotOwned(get_session_by_id(sessions, session_id), auth.user)
    THEN NotFound("delete_chat_session", token, session_id)
    ELSE \E commit_raises \in BOOLEAN :
      IF commit_raises
        THEN Respond(Response("delete_chat_session", token, session_id, 500,
                              "Failed to delete chat session", <<>>), "commit")
        ELSE LET after == delete_session(sessions, messages, session_id) IN
             /\ sessions' = after.sessions
             /\ messages' = after.messages
             /\ Sends(Response("delete_chat_session", token, session_id, 200,
                               "Chat session deleted successfully", <<>>), "none")
             /\ UNCHANGED <<api_key, limits, users, next_id, now, requests>>

\* A request to send a message that has passed the ownership check, and
\* where it stands: "title" (about to await generate_chat_title), "generate"
\* (about to await generate_response), "begin" (the streaming response is
\* returned and its generator has not run yet) or "done"; `titled` says
\* whether it has called generate_chat_title.
Request(stream, token, session_id, content, pc, previous_messages) ==
  [stream |-> stream, token |-> token, session_id |-> session_id, content |-> content,
   pc |-> pc, previous_messages |-> previous_messages, titled |-> FALSE]

FaultPoints == {"none", "insert", "touch"}

user_messages_count(previous_messages) ==
  LET from_user(m) == m.sender_type = "user" IN
  Len(SelectSeq(previous_messages, from_user))

\* Where the handler goes once it has read the history.
AfterHistory(previous_messages) ==
  IF user_messages_count(previous_messages) = 1 THEN "title" ELSE "generate"

EndpointOf(stream) == IF stream THEN "send_message_stream" ELSE "send_message"

StartFailedDetail(stream) ==
  IF stream THEN "Failed to start streaming" ELSE "Failed to send message"

\* The part the two send handlers share: authentication, the ownership
\* check and the insert of the user's message.  send_message goes on to read
\* the history at once; send_message_stream returns and leaves that to its
\* generator.
StartSend(stream, token, session_id, content) ==
  LET auth == get_current_user_dependency(users, token) IN
  IF ~auth.ok THEN AuthFailure(EndpointOf(stream), token, session_id, auth)
  ELSE IF NotOwned(get_session_by_id(sessions, session_id), auth.user)
    THEN NotFound(EndpointOf(stream), token, session_id)
    ELSE
      /\ Len(requests) < limits.requests
      /\ \E fault \in FaultPoints :
           LET added == add_message_to_session(sessions, messages, next_id.message,
                                               session_id, content, "user", now, fault)
           IN /\ sessions' = added.sessions
              /\ messages' = added.messages
              /\ next_id' = [next_id EXCEPT !.message = @ + 1]
              /\ UNCHANGED <<api_key, limits, users, now>>
              /\ IF added.raised
                   THEN /\ requests' = Append(requests,
                               Request(stream, token, session_id, content, "done", <<>>))
                        /\ Sends(Response(EndpointOf(stream), token, session_id, 500,
                                          StartFailedDetail(stream), <<>>), fault)
                   ELSE /\ Sends(NoResponse, "none")
                        /\ IF stream
                             THEN requests' = Append(requests,
                                    Request(stream, token, session_id, content, "begin", <<>>))
                             ELSE \E previous \in get_session_messages(added.messages, session_id) :
                                    requests' = Append(requests,
                                      Request(stream, token, session_id, content,
                                              AfterHistory(previous), previous))

\* POST /chat/sessions/{id}/messages, up to its first await
send_message(token, session_id, content) == StartSend(FALSE, token, session_id, content)

\* POST /chat/sessions/{id}/messages/stream, up to the return of the
\* StreamingResponse
send_message_stream(token, session_id, content) == StartSend(TRUE, token, session_id, content)

\* generate_stream, up to its first await
generate_stream_begin(r) ==
  /\ requests[r].pc = "begin"
  /\ \E previous \in get_session_messages(messages, requests[r].session_id) :
       requests' = [requests EXCEPT ![r].pc = AfterHistory(previous),
                                    ![r].previous_messages = previous]
  /\ Sends(NoResponse, "none")
  /\ UNCHANGED <<api_key, limits, store, now>>

ProviderCall(purpose, r, outcome, api_messages) ==
  [purpose |-> purpose, request |-> r, stream |-> requests[r].stream,
   outcome |-> outcome, messages |-> api_messages]

\* The title step of both handlers: generate_chat_title answers and
\* update_session_title stores the title; whatever these raise is logged
\* and dropped.  The provider answers one of `outcomes`.
generate_title(r, outcomes) ==
  /\ requests[r].pc = "title"
  /\ \E o \in Answers(outcomes) :
       LET new_title == generate_chat_title(api_key, o)
           session == get_session_by_id(sessions, requests[r].session_id)
       IN \E commit_raises \in (IF new_title.ok /\ session # {} THEN BOOLEAN ELSE {FALSE}) :
            /\ sessions' = IF new_title.ok /\ ~commit_raises
                             THEN update_session_title(sessions, requests[r].session_id,
                                                       new_title.v)
                             ELSE sessions
            /\ call' = ProviderCall("title", r, o, title_messages(requests[r].content))
            /\ result' = new_title
            /\ failure' = IF commit_raises THEN "commit" ELSE "none"
  /\ resp' = NoResponse
  /\ requests' = [requests EXCEPT ![r].pc = "generate", ![r].titled = TRUE]
  /\ UNCHANGED <<api_key, limits, users, messages, next_id, now>>

DataFrame(message) ==
  [type |-> "data", id |-> message.id, content |-> message.content,
   sender_type |-> "bot", created_at |-> message.created_at]

DoneFrame == [type |-> "[DONE]"]

ErrorFrame == [type |-> "error", error |-> "Failed to generate response"]

\* What the client of request `req` receives when the reply step ends:
\* `raised` says whether generate_response or the store raised.
ReplyResponse(req, raised, message) ==
  IF req.stream
    THEN Response("send_message_stream", req.token, req.session_id, 200, "",
                  IF raised THEN <<ErrorFrame>> ELSE <<DataFrame(message), DoneFrame>>)
    ELSE IF raised
      THEN Response("send_message", req.token, req.session_id, 500,
                    "Failed to send message", <<>>)
      ELSE Response("send_message", req.token, req.session_id, 200, "", <<message>>)

\* The rest of both handlers: format the history, await generate_response,
\* store the bot's message and answer.  The provider answers one of `posts`
\* to a plain call and one of `streams` to a streaming call.
generate_reply(r, posts, streams) ==
  /\ requests[r].pc = "generate"
  /\ \E o \in Answers(IF requests[r].stream THEN streams ELSE posts) :
       LET req == requests[r]
           ai_response_text == generate_response(api_key, req.stream, o)
       IN /\ call' = ProviderCall("reply", r, o, format_messages_for_api(req.previous_messages))
          /\ result' = ai_response_text
          /\ IF ~ai_response_text.ok
               THEN /\ resp' = ReplyResponse(req, TRUE, <<>>)
                    /\ failure' = "none"
                    /\ UNCHANGED <<sessions, messages, next_id>>
               ELSE \E fault \in FaultPoints :
                      LET added == add_message_to_session(sessions, messages, next_id.message,
                                     req.session_id, ai_response_text.v, "bot", now, fault)
                      IN /\ sessions' = added.sessions
                         /\ messages' = added.messages
                         /\ next_id' = [next_id EXCEPT !.message = @ + 1]
                         /\ resp' = ReplyResponse(req, added.raised, added.message)
                         /\ failure' = IF added.raised THEN fault ELSE "none"
  /\ requests' = [requests EXCEPT ![r].pc = "done"]
  /\ UNCHANGED <<api_key, limits, users, now>>

\* ------------------------------------------------------------------------
\* The server: every endpoint, any interleaving
\* ------------------------------------------------------------------------

SessionIds == 1..MaxSessions

\* The limits of a run of the whole server; its clock stands still, so all
\* the timestamps of a run are equal (func.now() has a resolution of one
\* second).
ServerLimits ==
  [users |-> MaxUsers, sessions |-> MaxSessions, requests |-> MaxRequests, time |-> 0]

\* Time passes between two requests or between two steps of a request.
Tick ==
  /\ now < limits.time
  /\ now' = now + 1
  /\ UNCHANGED <<api_key, limits, store, requests, resp, call, result, failure>>

Init ==
  /\ api_key \in ApiKeys
  /\ users = {}
  /\ sessions = {}
  /\ messages = <<>>
  /\ next_id = [user |-> 1, session |-> 1, message |-> 1]
  /\ now = 0
  /\ requests = <<>>
  /\ resp = NoResponse
  /\ call = NoCall
  /\ result = NoResult
  /\ failure = "none"
  /\ limits = ServerLimits

\* Without an API key generate_response returns before it awaits anything,
\* so a handler that has reached its title or reply step runs on to its end
\* before the event loop runs anything else.
Running ==
  api_key = "" /\ \E r \in DOMAIN requests : requests[r].pc \in {"title", "generate"}

Next ==
  \/ ~Running /\ \E email \in Emails, password \in Passwords : register(email, password)
  \/ ~Running /\ \E token \in Tokens : get_current_user(token)
  \/ ~Running /\ \E token \in Tokens : get_chat_sessions(token)
  \/ ~Running /\ \E token \in Tokens, title \in Titles :
       create_chat_session_handler(token, title)
  \/ ~Running /\ \E token \in Tokens, session_id \in SessionIds :
       get_session_messages_handler(token, session_id)
  \/ ~Running /\ \E token \in Tokens, session_id \in SessionIds :
       delete_chat_session(token, session_id)
  \/ ~Running /\ \E token \in Tokens, session_id \in SessionIds, content \in Contents :
       send_message(token, session_id, content)
  \/ ~Running /\ \E token \in Tokens, session_id \in SessionIds, content \in Contents :
       send_message_stream(token, session_id, content)
  \/ ~Running /\ \E r \in DOMAIN requests : generate_stream_begin(r)
  \/ \E r \in DOMAIN requests : generate_title(r, PostOutcomes)
  \/ \E r \in DOMAIN requests : generate_reply(r, PostOutcomes, StreamOutcomes)

Spec == Init /\ [][Next]_vars

\* ------------------------------------------------------------------------
\* The client: one request of each kind against every answer of the provider
\* ------------------------------------------------------------------------

TokenA == [sub |-> "a@x.com", valid |-> TRUE]

FirstMessage ==
  [id |-> 1, session_id |-> 1, content |-> "Hi", sender_type |-> "user", created_at |-> 0]

TimedOutTitle == IF api_key = "" THEN NoOutcome ELSE Failed("TimeoutException")

\* The server after user a@x.com registered, created session 1 and sent
\* "Hi" to it: either send_message stands before its title step, or
\* send_message_stream stands before its reply step, the provider having
\* timed out on the title.
InitClient ==
  /\ api_key \in ApiKeys
  /\ users = create_user({}, 1, "a@x.com", "pw")
  /\ messages = <<FirstMessage>>
  /\ next_id = [user |-> 2, session |-> 2, message |-> 2]
  /\ now = 0
  /\ resp = NoResponse
  /\ \/ /\ sessions = create_chat_session({}, 1, 1, "New Chat", 0)
        /\ requests = <<Request(FALSE, TokenA, 1, "Hi", "title", <<FirstMessage>>)>>
        /\ call = NoCall
        /\ result = NoResult
     \/ /\ sessions = update_session_title(create_chat_session({}, 1, 1, "New Chat", 0), 1,
                                           generate_chat_title(api_key, TimedOutTitle).v)
        /\ requests = <<[Request(TRUE, TokenA, 1, "Hi", "generate", <<FirstMessage>>)
                           EXCEPT !.titled = TRUE]>>
        /\ call = ProviderCall("title", 1, TimedOutTitle, title_messages("Hi"))
        /\ result = generate_chat_title(api_key, TimedOutTitle)
  /\ failure = "none"
  /\ limits = ServerLimits

NextClient ==
  \/ \E r \in DOMAIN requests : generate_title(r, AllPostOutcomes)
  \/ \E r \in DOMAIN requests : generate_reply(r, AllPostOutcomes, AllStreamOutcomes)

SpecClient == InitClient /\ [][NextClient]_vars

\* ------------------------------------------------------------------------
\* One session: requests of its owner in flight together, with a clock
\* ------------------------------------------------------------------------

\* What the provider answers in this specification: a completion.
SendPosts ==
  { Answered(200, "{\"choices\":[{\"message\":{\"content\":\"Hello\"}}]}") }

SendStreams ==
  { Streamed(<<Event("{\"choices\":[{\"delta\":{\"content\":\"Hel\"}}]}"),
               Event("[DONE]")>>, "none") }

\* The server after user a@x.com registered and created session 1, with an
\* API key configured.
InitSend ==
  /\ api_key = "sk-or-v1"
  /\ users = create_user({}, 1, "a@x.com", "pw")
  /\ sessions = create_chat_session({}, 1, 1, "New Chat", 0)
  /\ messages = <<>>
  /\ next_id = [user |-> 2, session |-> 2, message |-> 1]
  /\ now = 0
  /\ requests = <<>>
  /\ resp = NoResponse
  /\ call = NoCall
  /\ result = NoResult
  /\ failure = "none"
  /\ limits = [users |-> 1, sessions |-> 1, requests |-> MaxInFlight, time |-> MaxTime]

NextSend ==
  \/ \E content \in Contents : send_message(TokenA, 1, content)
  \/ \E content \in Contents : send_message_stream(TokenA, 1, content)
  \/ \E r \in DOMAIN requests : generate_stream_begin(r)
  \/ \E r \in DOMAIN requests : generate_title(r, SendPosts)
  \/ \E r \in DOMAIN requests : generate_reply(r, SendPosts, SendStreams)
  \/ get_session_messages_handler(TokenA, 1)
  \/ Tick

SpecSend == InitSend /\ [][NextSend]_vars

\* ------------------------------------------------------------------------
\* Accounts: registration by several server processes, and login
\* ------------------------------------------------------------------------

\* The passwords a login is tried with.
LoginPasswords == Passwords \cup {"no"}

\* An account the operator has deactivated in the store.
Deactivated(user) == [user EXCEPT !.is_active = FALSE]

\* The store holds no account, or the deactivated account of b@x.com.
InitAuth ==
  /\ api_key \in ApiKeys
  /\ \/ /\ users = {}
        /\ next_id = [user |-> 1, session |-> 1, message |-> 1]
     \/ /\ users = {Deactivated(TheRow(create_user({}, 1, "b@x.com", "pw")))}
        /\ next_id = [user |-> 2, session |-> 1, message |-> 1]
  /\ sessions = {}
  /\ messages = <<>>
  /\ now = 0
  /\ requests = <<>>
  /\ resp = NoResponse
  /\ call = NoCall
  /\ result = NoResult
  /\ failure = "none"
  /\ limits = [users |-> MaxUsers, sessions |-> 0, requests |-> MaxInFlight, time |-> 0]

NextAuth ==
  \/ \E email \in Emails, password \in Passwords : register_check(email, password)
  \/ \E r \in DOMAIN requests : register_create(r)
  \/ \E email \in Emails, password \in LoginPasswords : login(email, password)
  \/ \E token \in Tokens : get_current_user(token)

SpecAuth == InitAuth /\ [][NextAuth]_vars

\* ------------------------------------------------------------------------
\* Sessions of two users: created, written to, deleted and listed
\* ------------------------------------------------------------------------

TokenB == [sub |-> "b@x.com", valid |-> TRUE]

ListedIds == 1..MaxListed

\* The server after a@x.com and b@x.com registered, without an API key: a
\* send_message runs to its end once it has started.
InitLists ==
  /\ api_key = ""
  /\ users = create_user(create_user({}, 1, "a@x.com", "pw"), 2, "b@x.com", "pw")
  /\ sessions = {}
  /\ messages = <<>>
  /\ next_id = [user |-> 3, session |-> 1, message |-> 1]
  /\ now = 0
  /\ requests = <<>>
  /\ resp = NoResponse
  /\ call = NoCall
  /\ result = NoResult
  /\ failure = "none"
  /\ limits = [users |-> 2, sessions |-> MaxListed, requests |-> MaxRequests, time |-> MaxTime]

NextLists ==
  \/ ~Running /\ \E token \in {TokenA, TokenB}, title \in Titles :
       create_chat_session_handler(token, title)
  \/ ~Running /\ \E token \in {TokenA, TokenB} : get_chat_sessions(token)
  \/ ~Running /\ \E token \in {TokenA, TokenB}, session_id \in ListedIds :
       delete_chat_session(token, session_id)
  \/ ~Running /\ \E token \in {TokenA, TokenB}, session_id \in ListedIds, content \in Contents :
       send_message(token, session_id, content)
  \/ \E r \in DOMAIN requests : generate_title(r, PostOutcomes)
  \/ \E r \in DOMAIN requests : generate_reply(r, PostOutcomes, StreamOutcomes)
  \/ ~Running /\ Tick

SpecLists == InitLists /\ [][NextLists]_vars

\* ------------------------------------------------------------------------
\* Properties
\* ------------------------------------------------------------------------

SessionEndpoints ==
  {"get_session_messages", "send_message", "send_message_stream", "delete_chat_session"}

ProtectedEndpoints == SessionEndpoints \cup {"me", "get_chat_sessions", "create_chat_session"}

\* The user records a token authenticates: verification accepts the token
\* and its subject is a registered email.
CallerOf(token) == {u \in users : token.valid /\ u.email = token.sub}

\* Session `session_id` exists and belongs to one of `owners`.
OwnedBy(session_id, owners) ==
  \E x \in sessions : x.id = session_id /\ \E u \in owners : x.user_id = u.id

\* A step that handles a request on session `session_id` sent with `token`.
SessionRequest(token, session_id) ==
  \/ get_session_messages_handler(token, session_id)
  \/ delete_chat_session(token, session_id)
  \/ \E content \in Contents : send_message(token, session_id, content)
  \/ \E content \in Contents : send_message_stream(token, session_id, content)

SessionNotFound(token, session_id) ==
  {Response(endpoint, token, session_id, 404, "Chat session not found", <<>>) :
     endpoint \in SessionEndpoints}

\* C1: on the four session-scoped endpoints, a request of an authenticated
\* caller for a session that is not theirs ends as a request for a session
\* that does not exist ends: 404 'Chat session not found' with no message in
\* the body, and no session, message or title of the store is changed (nor
\* is any request admitted or provider call made).
C1_NotOwnerNotFound ==
  [][\A token \in Tokens, session_id \in SessionIds :
       /\ CallerOf(token) # {}
       /\ ~OwnedBy(session_id, CallerOf(token))
       /\ SessionRequest(token, session_id)
       => /\ resp' \in SessionNotFound(token, session_id)
          /\ call' = NoCall
          /\ UNCHANGED <<store, requests>>]_vars

\* C1's case: a registered caller was refused on a session that exists,
\* belongs to somebody else and holds a message.
C1_Witness ==
  \E token \in Tokens, session_id \in SessionIds :
    /\ resp \in SessionNotFound(token, session_id)
    /\ CallerOf(token) # {}
    /\ \E x \in sessions : x.id = session_id /\ x.user_id \notin {u.id : u \in CallerOf(token)}
    /\ \E i \in DOMAIN messages : messages[i].session_id = session_id

\* C2: a register request for an email the store holds ends with 400 'Email
\* already registered' and leaves the user records as they are; one for an
\* email the store does not hold succeeds, provided the store accepts the
\* write, and adds exactly one record, which carries that email.
C2_RegisterOncePerEmail ==
  [][\A email \in Emails :
       (\E password \in Passwords : register(email, password)) =>
         IF \E u \in users : u.email = email
           THEN /\ resp' = RegisterResponse(email, 400, "Email already registered")
                /\ users' = users
           ELSE failure' = "none" =>
                  /\ resp' = RegisterResponse(email, 200, "User registered successfully")
                  /\ users \subseteq users'
                  /\ Cardinality(users') = Cardinality(users) + 1
                  /\ \E u \in users' \ users : u.email = email]_vars

\* C2's case: a second registration of a stored email was refused, with the
\* other email registered too.
C2_Witness ==
  /\ \E email \in Emails :
       /\ resp = RegisterResponse(email, 400, "Email already registered")
       /\ Cardinality({u \in users : u.email = email}) = 1
  /\ Cardinality(users) = 2

\* C3: every stored message belongs to a session of the store; so once a
\* session is deleted no message carries its id, whatever request was in
\* flight on it.
C3_MessagesBelongToSessions ==
  \A i \in DOMAIN messages : \E x \in sessions : x.id = messages[i].session_id

\* C4: generate_response returns a text, whatever the provider call ends
\* as, on the streaming and the non-streaming path.
C4_NeverRaises == call.purpose = "reply" => result.ok

\* C4's case: client.post or client.stream raised something that is neither
\* a timeout nor a transport error, and generate_response returned a text.
C4_Witness ==
  /\ call.purpose = "reply"
  /\ call.outcome.exc = "TypeError"
  /\ result = Ok(GenericErrorText)

\* A parsed body whose first choice carries a message text.
HasMessageText(d) ==
  /\ d.t = "obj" /\ "choices" \in DOMAIN d.f
  /\ d.f.choices.t = "list" /\ Len(d.f.choices.items) > 0
  /\ d.f.choices.items[1].t = "obj" /\ "message" \in DOMAIN d.f.choices.items[1].f
  /\ d.f.choices.items[1].f.message.t = "obj"
  /\ "content" \in DOMAIN d.f.choices.items[1].f.message.f
  /\ d.f.choices.items[1].f.message.f.content.t = "str"

\* A parsed body that is no well-formed completion in one of the three ways
\* of C5: no choices field, an empty choices list, or a first choice without
\* the message text.
LacksCompletion(d) ==
  /\ d.t = "obj"
  /\ \/ "choices" \notin DOMAIN d.f
     \/ d.f.choices.t = "list" /\ ~HasMessageText(d)

\* The provider call `o` of the non-streaming path came back with a 2xx
\* status and a JSON body.
Succeeded(o) == o.exc = "none" /\ o.status \in 200..299 /\ JsonLoads(o.body).ok

\* The provider call `o` of the non-streaming path failed: no API key, an
\* exception, an error status, or a body that is no completion.
ProviderFailed(o) == ~(Succeeded(o) /\ HasMessageText(JsonLoads(o.body).v))

\* C5: on the non-streaming path a 2xx response whose body has no choices
\* field, an empty choices list or a first choice without the message text
\* makes generate_response return 'I received an unexpected response format.
\* Please try again.'
C5_MalformedGivesFormatText ==
  /\ call.purpose = "reply"
  /\ ~call.stream
  /\ Succeeded(call.outcome)
  /\ LacksCompletion(JsonLoads(call.outcome.body).v)
  => result = Ok(FormatText)

\* C6: when the provider call made for the title fails, the session's title
\* becomes 'New Chat' (the store accepting the write).
C6_FailedTitleIsDefault ==
  /\ call.purpose = "title"
  /\ ProviderFailed(call.outcome)
  /\ failure = "none"
  => \A x \in sessions : x.id = requests[call.request].session_id => x.title = DefaultTitle

\* A step that handles a request to a protected endpoint sent with `token`.
ProtectedRequest(token) ==
  \/ get_current_user(token)
  \/ get_chat_sessions(token)
  \/ \E title \in Titles : create_chat_session_handler(token, title)
  \/ \E session_id \in SessionIds : SessionRequest(token, session_id)

Refusals(token, status, detail) ==
  {Response(endpoint, token, session_id, status, detail, <<>>) :
     endpoint \in ProtectedEndpoints, session_id \in 0..MaxSessions}

\* C7 as amended: on every protected endpoint a request whose token fails
\* verification ends with 401 'Invalid token', and one whose token verifies
\* but whose subject is no user record ends with 404 'User not found'; in
\* both cases the store is left as it is, no request is admitted and no
\* provider call is made.
C7_UnresolvedCallerRefused ==
  [][\A token \in Tokens :
       CallerOf(token) = {} /\ ProtectedRequest(token)
       => /\ resp' \in (IF token.valid THEN Refusals(token, 404, "User not found")
                                       ELSE Refusals(token, 401, "Invalid token"))
          /\ call' = NoCall
          /\ UNCHANGED <<store, requests>>]_vars

\* C7's case: a token that verifies, for a subject without a user record,
\* was refused.
C7_Witness ==
  \E token \in Tokens :
    /\ token.valid
    /\ CallerOf(token) = {}
    /\ resp \in Refusals(token, 404, "User not found")

\* C7 as stated: a request whose token fails verification or whose subject
\* is no user record ends with a 401 outcome, and nothing else is done.
C7_UnresolvedCallerGets401 ==
  [][\A token \in Tokens :
       CallerOf(token) = {} /\ ProtectedRequest(token)
       => /\ resp' \in Refusals(token, 401, "Invalid token") \cup
                       Refusals(token, 401, "User not found")
          /\ call' = NoCall
          /\ UNCHANGED <<store, requests>>]_vars

\* The texts generate_response returns in place of a completion.
FallbackTexts ==
  {NotConfiguredText, TimeoutText, ConnectText, GenericErrorText, FormatText}

\* The step is the reply step of send_message request r.
RepliesTo(r) ==
  /\ requests[r].pc = "generate" /\ ~requests[r].stream
  /\ requests'[r].pc = "done"
  /\ call'.purpose = "reply"

\* C8: when the provider call of send_message fails, the store accepting
\* the write, the request ends with 200 and a bot message whose content is
\* one of the fixed fallback texts, and the store gains exactly that message,
\* after the user's message.
C8_DegradedReplyIsSuccess ==
  [][\A r \in DOMAIN requests :
       RepliesTo(r) /\ ProviderFailed(call'.outcome) /\ failure' = "none"
       => /\ Len(messages') = Len(messages) + 1
          /\ LET ai_message == messages'[Len(messages')] IN
             /\ messages' = Append(messages, ai_message)
             /\ ai_message.sender_type = "bot"
             /\ ai_message.session_id = requests[r].session_id
             /\ ai_message.content \in FallbackTexts
             /\ resp' = Response("send_message", requests[r].token, requests[r].session_id,
                                 200, "", <<ai_message>>)]_vars

\* C8's case: the provider timed out on the owner's send_message; the
\* session holds the user's message and then the fallback text.
C8_Witness ==
  /\ call.purpose = "reply" /\ ~call.stream
  /\ call.outcome.exc = "TimeoutException"
  /\ resp.endpoint = "send_message" /\ resp.status = 200
  /\ OwnedBy(resp.session_id, CallerOf(resp.token))
  /\ Len(messages) = 2
  /\ messages[1].sender_type = "user" /\ messages[1].session_id = resp.session_id
  /\ messages[2] = resp.body[1]
  /\ messages[2].content = TimeoutText

\* The payloads of the events of `lines` that arrive before the first
\* '[DONE]' sentinel, in arrival order.
RECURSIVE EventsBeforeDone(_)
EventsBeforeDone(lines) ==
  IF lines = <<>> THEN <<>>
  ELSE IF ~StartsWith(Head(lines), "data: ") THEN EventsBeforeDone(Tail(lines))
  ELSE LET payload == SubSeq(Head(lines), 7, Len(Head(lines))) IN
       IF Strip(payload) = "[DONE]" THEN <<>>
       ELSE <<payload>> \o EventsBeforeDone(Tail(lines))

\* The first delta of a parsed event, as a set: empty when the event has no
\* choice or its first choice has no delta object.
FirstDelta(d) ==
  IF /\ d.t = "obj" /\ "choices" \in DOMAIN d.f
     /\ d.f.choices.t = "list" /\ Len(d.f.choices.items) > 0
     /\ d.f.choices.items[1].t = "obj" /\ "delta" \in DOMAIN d.f.choices.items[1].f
     /\ d.f.choices.items[1].f.delta.t = "obj"
  THEN {d.f.choices.items[1].f.delta} ELSE {}

\* The content fragment found in the first delta of the event `payload`:
\* empty when the payload is no JSON or its first delta has no text content.
Fragment(payload) ==
  LET d == JsonLoads(payload) IN
  IF d.ok /\ \E delta \in FirstDelta(d.v) :
               "content" \in DOMAIN delta.f /\ delta.f.content.t = "str"
    THEN (CHOOSE delta \in FirstDelta(d.v) : TRUE).f.content.s
    ELSE ""

RECURSIVE Concatenation(_)
Concatenation(payloads) ==
  IF payloads = <<>> THEN "" ELSE Fragment(Head(payloads)) \o Concatenation(Tail(payloads))

\* An event the loop body takes without raising: no JSON (skipped), or an
\* object with no choices, an empty list of choices, or a first choice that
\* is an object whose delta, when it has one, is an object whose content,
\* when it has one, is a text.
PlainEvent(payload) ==
  LET d == JsonLoads(payload) IN
  \/ ~d.ok
  \/ /\ d.v.t = "obj"
     /\ \/ "choices" \notin DOMAIN d.v.f
        \/ /\ d.v.f.choices.t = "list"
           /\ \/ Len(d.v.f.choices.items) = 0
              \/ /\ d.v.f.choices.items[1].t = "obj"
                 /\ \/ "delta" \notin DOMAIN d.v.f.choices.items[1].f
                    \/ \E delta \in FirstDelta(d.v) :
                         \/ "content" \notin DOMAIN delta.f
                         \/ delta.f.content.t = "str"

\* The provider call `o` of the streaming path delivered a whole stream.
Delivered(o) == o.exc = "none" /\ o.status \in 200..299 /\ o.end_exc = "none"

BotMessages == SelectSeq(messages, LAMBDA m : m.sender_type = "bot")

\* The store holds exactly one bot message: `text`, in the session of the
\* request the last provider call was made for.
PersistedOnce(text) ==
  /\ Len(BotMessages) = 1
  /\ BotMessages[1].content = text
  /\ BotMessages[1].session_id = requests[call.request].session_id

C10_FramesMatchPersistence ==
  resp.endpoint = "send_message_stream" /\ resp.status = 200
  => LET persisted == {i \in DOMAIN messages :
                         /\ messages[i].sender_type = "bot"
                         /\ messages[i].session_id = resp.session_id}
     IN \/ /\ resp.body = <<ErrorFrame>>
           /\ persisted = {}
        \/ /\ persisted # {}
           /\ \E i \in persisted : resp.body = <<DataFrame(messages[i]), DoneFrame>>

\* The listing of session 1 that get_session_messages has just answered.
Listed(body) ==
  resp = Response("get_session_messages", TokenA, 1, 200, "", body)

\* C11: after N messages have been appended to a session, whatever
\* timestamps they got, get_session_messages returns exactly those N
\* messages in the order in which they were appended.
C11_ListedInAppendOrder ==
  resp.endpoint = "get_session_messages" => Listed(SessionRows(messages, 1))

\* A login that must fail: no account has the email, or the password is
\* not the account's.
UnknownEmail(email) == \A u \in users : u.email # email

WrongPassword(email, password) ==
  \E u \in users : u.email = email /\ ~verify_password(password, u.hashed_password)

\* C12: a login with an email of no account and a login with the email of
\* an account and a wrong password get the same answer, 401 'Incorrect
\* email or password' without a token, whether the account is active or
\* not, and leave the store as it is.
C12_FailedLoginsAlike ==
  [][\A email \in Emails, password \in LoginPasswords :
       login(email, password) /\ (UnknownEmail(email) \/ WrongPassword(email, password)) =>
         /\ resp' = LoginResponse(401, "Incorrect email or password", <<>>)
         /\ UNCHANGED store]_vars

\* Both failures have been answered: the store holds the deactivated
\* account of b@x.com and the active one of a@x.com, and the login just
\* answered failed.
C12_Witness ==
  /\ resp = LoginResponse(401, "Incorrect email or password", <<>>)
  /\ \E u \in users : ~u.is_active
  /\ \E u \in users : u.is_active

\* Request `r` to register has passed the existence check, and since then
\* another request has registered its email.
Overtaken(r) ==
  /\ requests[r].pc = "create"
  /\ get_user_by_email(users, requests[r].email) # {}

SessionsOf(token) == {x \in sessions : \E u \in CallerOf(token) : x.user_id = u.id}

Elements(rows) == {rows[i] : i \in DOMAIN rows}

\* C13: whatever sessions were created, written to and deleted, the list
\* of a user's sessions holds every existing session of that user, once
\* each, and no session of another user.
C13_ListsOwnSessions ==
  resp.endpoint = "get_chat_sessions" /\ resp.status = 200 =>
    /\ Elements(resp.body) = SessionsOf(resp.token)
    /\ Len(resp.body) = Cardinality(SessionsOf(resp.token))

\* a@x.com has listed the session it owns while b@x.com owns the other one.
C13_Witness ==
  /\ resp.endpoint = "get_chat_sessions" /\ resp.status = 200
  /\ resp.token = TokenA
  /\ Len(resp.body) = 1
  /\ SessionsOf(TokenB) # {}

\* Request `r` has stored its user message and read the history.
ReadHistory(r) == requests[r].previous_messages # <<>>

Titling == {r \in DOMAIN requests : requests[r].titled}

\* C15: however the send_message and send_message_stream requests on a
\* session interleave, once they have ended the title has been asked for
\* exactly once, by the request that stored the session's first user
\* message.  (Requests whose insert failed are left out of the count.)
C15_TitledOnceByFirst ==
  (/\ requests # <<>>
   /\ \A r \in DOMAIN requests : requests[r].pc = "done" /\ ReadHistory(r))
    => Titling = {1}

\* A stream event whose payload is not the end marker and is not JSON, or
\* is JSON but not an object.
Unusable(line) ==
  /\ StartsWith(line, "data: ")
  /\ Strip(SubSeq(line, 7, Len(line))) # "[DONE]"
  /\ LET data == JsonLoads(SubSeq(line, 7, Len(line))) IN
       IF data.ok THEN data.v.t # "obj" ELSE data.exc = "JSONDecodeError"

Without(lines, i) == SubSeq(lines, 1, i - 1) \o SubSeq(lines, i + 1, Len(lines))

\* C16: a stream event whose payload is invalid JSON or JSON that is not
\* an object is skipped: the text generate_response returns is the text it
\* returns for the same stream without that event.
C16_UnusableEventSkipped ==
  (call.purpose = "reply" /\ call.stream /\ api_key # "") =>
    \A i \in DOMAIN call.outcome.lines :
      Unusable(call.outcome.lines[i]) =>
        result = generate_response(api_key, TRUE,
                   [call.outcome EXCEPT !.lines = Without(call.outcome.lines, i)])

Quotes == {"\"", "'"}

\* `title` without at most one quote character at its head and at most one
\* at its end.
Unquoted(title) ==
  LET n == Len(title)
      heads == IF n > 0 /\ SubSeq(title, 1, 1) \in Quotes THEN {0, 1} ELSE {0}
      tails == IF n > 0 /\ SubSeq(title, n, n) \in Quotes THEN {0, 1} ELSE {0}
  IN {SubSeq(title, 1 + a, n - b) : a \in heads, b \in tails}

\* C17: for the text t that generate_response returns for the title,
\* generate_chat_title returns t when it has at most 50 characters, else
\* its first 47 characters and '...', less at most one quote character at
\* the head and at most one at the end; the title has at most 50 characters.
C17_TitleTruncatedUnquoted ==
  call.purpose = "title" =>
    LET t == generate_response(api_key, FALSE, call.outcome) IN
    t.ok =>
      /\ result.ok
      /\ result.v \in Unquoted(IF Len(t.v) <= 50 THEN t.v ELSE SubSeq(t.v, 1, 47) \o "...")
      /\ Len(result.v) <= 50

\* The role the provider knows a sender by.
ProviderRole(sender_type) ==
  CASE sender_type = "user" -> "user"
    [] sender_type = "bot" -> "assistant"

\* C18: for a history of n stored messages the provider is sent n + 1
\* entries: one with role 'system', then one per stored message, in the
\* same order and with the same content, 'user' for a user's message and
\* 'assistant' for a bot's.
C18_HistoryFormatted ==
  call.purpose = "reply" =>
    LET stored == requests[call.request].previous_messages
        sent == call.messages
    IN /\ Len(sent) = Len(stored) + 1
       /\ sent[1].role = "system"
       /\ \A i \in 1..Len(stored) :
            sent[i + 1] = [role |-> ProviderRole(stored[i].sender_type),
                           content |-> stored[i].content]

\* A reply call for a history with a bot's message between two of the user.
C18_Witness ==
  /\ call.purpose = "reply"
  /\ \E i, j, k \in DOMAIN requests[call.request].previous_messages :
       /\ i < j /\ j < k
       /\ requests[call.request].previous_messages[i].sender_type = "user"
       /\ requests[call.request].previous_messages[j].sender_type = "bot"
       /\ requests[call.request].previous_messages[k].sender_type = "user"

\* Two send_message requests on session 1 are past their start, each
\* having stored its user message.
TwoPlainSends ==
  /\ Len(requests) = 2
  /\ \A r \in DOMAIN requests : ~requests[r].stream /\ ReadHistory(r)

SenderTypes(rows) == [i \in DOMAIN rows |-> rows[i].sender_type]

\* The unserialized history: both user messages precede both replies.
Unserialized ==
  /\ TwoPlainSends
  /\ SenderTypes(SessionRows(messages, 1)) = <<"user", "user", "bot", "bot">>

\* The history sent for the second request holds the user message of the
\* first, still unanswered.
ForeignMessageSent ==
  /\ TwoPlainSends
  /\ call.purpose = "reply" /\ call.request = 2
  /\ [i \in DOMAIN call.messages |-> call.messages[i].role] = <<"system", "user", "user">>

\* C19: two send_message requests on one session are not serialized (the
\* history user, user, bot, bot is reachable, and the history sent for one
\* request can hold the other's user message), and in every such
\* interleaving the messages are listed in the order in which the handlers
\* appended them.
C19_InterleavedListedInAppendOrder ==
  (TwoPlainSends /\ resp.endpoint = "get_session_messages") =>
    Listed(SessionRows(messages, 1))

\* The step appends a message and its commits succeed.
Appends == Len(messages') > Len(messages) /\ failure' = "none"

\* C20: a user's sessions are listed most recently updated first: once a
\* message has been appended to session S, S comes before every other
\* session of its owner, until another one is created or written to.
C20_AppendedSessionListedFirst ==
  [][Appends =>
       LET appended == messages'[Len(messages')]
           session == get_session_by_id(sessions', appended.session_id)
       IN session # {} =>
            \A listed \in get_user_chat_sessions(sessions', TheRow(session).user_id) :
              listed[1].id = appended.session_id]_vars

\* C21: generate_response returns a non-empty string on the streaming and
\* on the plain path, whatever the provider sends, so no bot message with
\* empty content is stored.
C21_ReplyNeverEmpty ==
  /\ call.purpose = "reply" => result.ok /\ result.v # ""
  /\ \A i \in DOMAIN BotMessages : BotMessages[i].content # ""

\* The step answers a send_message request with an error response, or ends
\* a send_message_stream request with an error (a response that is not the
\* stream, or the error frame).
SendFails ==
  /\ resp'.endpoint \in {"send_message", "send_message_stream"}
  /\ resp'.status >= 400 \/ resp'.body = <<ErrorFrame>>

\* The step ends a request that had stored its user message in an earlier
\* step.
EndsRequest ==
  \E r \in DOMAIN requests : requests[r].pc = "generate" /\ requests'[r].pc = "done"

\* C22: a send_message request that ends with an error response (404, or
\* 500 after a failure at any step) and a send_message_stream request that
\* ends with an error frame leave the session's messages as they were
\* before the request.  A run of the server admits one such request past
\* its checks, so that before it the session had no message.
C22_FailedSendLeavesNoMessage ==
  [][SendFails =>
       SessionRows(messages', resp'.session_id) =
         IF EndsRequest THEN <<>> ELSE SessionRows(messages, resp'.session_id)]_vars

====
